---- MODULE Spec2Model ----
(***************************************************************************)
(* petk: profiling and validation of tabular data.                         *)
(*                                                                         *)
(* Modelled here:                                                          *)
(*   petk/tools.py        get_type, get_dtype, get_description,            *)
(*                        is_outbound                                      *)
(*   petk/utils.py        get_type                                         *)
(*   petk/validation.py   range, geospatial, bounding_box, sliver          *)
(*   petk/exploration.py  DataReport.__init__, _generate_schema,           *)
(*                        _find_columns, describe, validate,               *)
(*                        _format_results                                  *)
(*   petk/explore.py      DataReport.get_description                       *)
(*                                                                         *)
(* Encoding of Python values.  A cell of a pandas Series is a tagged       *)
(* tuple: <<"None">>, <<"nan">>, <<"num", n>>, <<"str", s>>,               *)
(* <<"bool", b>>, <<"date", n>>, <<"list">> (an unhashable cell).  A       *)
(* Python str that holds a type tag is a sequence of words, so that        *)
(* ' '.join and the substring test `a in b` are computed, not assumed.     *)
(*                                                                         *)
(* Names that exploration.py uses but never binds are read as the          *)
(* identifiers the surrounding code defines: `def` (line 202) is the       *)
(* SCHEMA_STRUCTURE entry, `_format_results(req, ...)` (line 206) is the   *)
(* nested `_format_requirements`, `self.nulls` (line 26) is the `nulls`    *)
(* argument after _generate_schema has normalised it.                      *)
(***************************************************************************)
EXTENDS Integers, Sequences, FiniteSets, TLC

VARIABLES
    series,       \* SpecFn: the Series handed to the module-level functions
    ret,          \* SpecFn: the last call of a module-level function and its result
    raw,          \* SpecInit: the table handed to DataReport(...)
    args,         \* SpecInit: the rule groups handed to DataReport(...)
    obj,          \* SpecInit: the outcome of DataReport.__init__
    df,           \* Spec: DataReport.df
    schema,       \* Spec: DataReport.schema
    description,  \* Spec: DataReport.description (column -> profile record)
    validation,   \* Spec: DataReport.validation (the accumulated issue rows)
    nChecked,     \* Spec: per column, how often validate ran its checkers
    nDescribed,   \* Spec: per column, how often describe ran get_description
    last,         \* Spec: the last call on the facade and what it returned
    results,      \* SpecFmt: the result frame handed to _format_results
    shaped        \* SpecFmt: what _format_results returned for it, flat and nested

vars == <<series, ret, raw, args, obj, df, schema, description, validation,
          nChecked, nDescribed, last, results, shaped>>

fnVars == <<series, ret>>
initVars == <<raw, args, obj>>
reportVars == <<df, schema, description, validation, nChecked, nDescribed, last>>
fmtVars == <<results, shaped>>

-----------------------------------------------------------------------------
(* Bounds of the model *)

MaxLen == 4        \* longest Series handed to a module-level function
MaxCalls == 2      \* describe/validate calls on one DataReport
NRows == 2         \* rows of the table handed to DataReport(...)

-----------------------------------------------------------------------------
(* Python values *)

None == <<"None">>
NaN == <<"nan">>
Num(n) == <<"num", n>>
Str(s) == <<"str", s>>
Bool(b) == <<"bool", b>>
Date(n) == <<"date", n>>
List == <<"list">>

\* pandas.isnull
IsNull(v) == v = None \/ v = NaN

\* The elements of a sequence, as a set
Elems(s) == {s[i] : i \in DOMAIN s}

-----------------------------------------------------------------------------
(* petk/constants.py *)

TYPE_BOOL == "BOOLEAN"
TYPE_DATE == "DATE"
TYPE_GEO == "GEOMETRY"
TYPE_NUM == "NUMERIC"
TYPE_STR == "STRING"
TYPE_EMPTY == "EMPTY"
TYPE_UNSUPPORTED == "UNSUPPORTED"
\* constants.TYPE_CONST, constants.TYPE_UNIQUE and constants.NULLS are read by
\* tools.py, utils.py and exploration.py; constants.py as it stands does not
\* bind them.  Their values are those of the semantic-type enum and of the
\* null-sentinel set ('defaults' of SCHEMA_STRUCTURE['nulls']).
TYPE_CONST == "CONSTANT"
TYPE_UNIQUE == "UNIQUE"
NULLS == <<None, NaN, Str("null"), Str("")>>

\* SCHEMA_STRUCTURE, in insertion order: name and to_list
SCHEMA_STRUCTURE ==
    << [name |-> "nulls", to_list |-> TRUE],
       [name |-> "default", to_list |-> FALSE],
       [name |-> "min", to_list |-> FALSE],
       [name |-> "max", to_list |-> FALSE] >>

-----------------------------------------------------------------------------
(* pandas Series: [name, dtype, vals] *)

Size(s) == Len(s.vals)

\* A cell nunique cannot hash
Unhashable(s) == \E i \in DOMAIN s.vals : s.vals[i] = List

\* Series.nunique(): distinct non-null values
NUnique(s) == Cardinality({v \in Elems(s.vals) : ~IsNull(v)})

\* Series.nunique(dropna=False): null is one more category
NUniqueAll(s) ==
    NUnique(s) + (IF \E v \in Elems(s.vals) : IsNull(v) THEN 1 ELSE 0)

is_bool_dtype(s) == s.dtype = "bool"
is_datetime64_dtype(s) == s.dtype = "datetime64"
is_numeric_dtype(s) == s.dtype \in {"float64", "bool"}

\* Series.count(): non-null observations
Count(s) == Cardinality({i \in DOMAIN s.vals : ~IsNull(s.vals[i])})

-----------------------------------------------------------------------------
(* Python str of type tags: a sequence of words *)

\* ' '.join([a, b])
Join(a, b) == <<a, b>>

\* str.strip(): the empty leading and trailing words go, with their blanks
RECURSIVE Strip(_)
Strip(w) ==
    IF w = <<>> THEN w
    ELSE IF Head(w) = "" THEN Strip(Tail(w))
    ELSE IF w[Len(w)] = "" THEN Strip(SubSeq(w, 1, Len(w) - 1))
    ELSE w

\* a in b, for two strs
IsSubstr(a, b) ==
    \E k \in 0..(Len(b) - Len(a)) : SubSeq(b, k + 1, k + Len(a)) = a

\* A str holding one tag
Tag(t) == <<t>>

-----------------------------------------------------------------------------
(* petk/utils.py *)

utils_get_type(s) ==
    IF s.name = "geometry" THEN Tag(TYPE_GEO)
    ELSE IF Unhashable(s) THEN Tag(TYPE_UNSUPPORTED)
    ELSE LET distinct_count == NUnique(s)
             value_count == NUniqueAll(s)
         IN  IF value_count = 1 /\ distinct_count = 0 THEN Tag(TYPE_EMPTY)
             ELSE IF distinct_count = 1 THEN Tag(TYPE_CONST)
             ELSE IF is_bool_dtype(s) \/ (distinct_count = 2 /\ is_numeric_dtype(s))
                  THEN Tag(TYPE_BOOL)
             ELSE IF is_datetime64_dtype(s) THEN Tag(TYPE_DATE)
             ELSE IF is_numeric_dtype(s) THEN Tag(TYPE_NUM)
             ELSE IF value_count = Size(s) THEN Tag(TYPE_UNIQUE)
             ELSE Tag(TYPE_STR)

-----------------------------------------------------------------------------
(* petk/tools.py *)

get_dtype(s) ==
    IF is_bool_dtype(s) \/ (NUnique(s) = 2 /\ is_numeric_dtype(s)) THEN TYPE_BOOL
    ELSE IF is_datetime64_dtype(s) THEN TYPE_DATE
    ELSE IF is_numeric_dtype(s) THEN TYPE_NUM
    ELSE TYPE_STR

\* The modifier of tools.get_type
Modifier(s) ==
    LET distinct_count == NUnique(s)
        value_count == NUniqueAll(s)
    IN  IF value_count = 1 /\ distinct_count = 0 THEN TYPE_EMPTY
        ELSE IF distinct_count = 1 THEN TYPE_CONST
        ELSE IF value_count = Size(s) THEN TYPE_UNIQUE
        ELSE ""

get_type(s) ==
    IF s.name = "geometry" THEN Tag(TYPE_GEO)
    ELSE IF Unhashable(s) THEN Tag(TYPE_UNSUPPORTED)
    ELSE Strip(Join(Modifier(s), get_dtype(s)))

\* x < y and x > y on cells: False against NaN
Less(x, y) == Len(x) = 2 /\ Len(y) = 2 /\ x[1] = y[1] /\ x[2] < y[2]

\* bool(b) of a bound: None and the number 0 are falsy
Truthy(b) == b # None /\ b # Num(0)

is_outbound(x, lower, upper) ==
    IF Truthy(lower) /\ Less(x, lower) THEN "Value is less than the lower bound"
    ELSE IF Truthy(upper) /\ Less(upper, x) THEN "Value is greater than the upper bound"
    ELSE "None"

\* A statistic pandas computes in floating point (memory_usage, mean, std,
\* quantiles, ...): the key is kept, the value is not modelled
Lib == "lib"

\* Series.min() and Series.max() over the non-null cells
NonNull(s) == {s.vals[i][2] : i \in {j \in DOMAIN s.vals : Len(s.vals[j]) = 2}}
SeriesMin(s) == IF NonNull(s) = {} THEN NaN
                ELSE CHOOSE m \in NonNull(s) : \A n \in NonNull(s) : m <= n
SeriesMax(s) == IF NonNull(s) = {} THEN NaN
                ELSE CHOOSE m \in NonNull(s) : \A n \in NonNull(s) : m >= n

\* np.count_nonzero(series): every cell that is not the number 0, NaN included
count_nonzero(s) == Cardinality({i \in DOMAIN s.vals : s.vals[i] # Num(0)})

\* The keys get_description adds for DATE and NUMERIC, and for NUMERIC alone
RangeStats(s) ==
    ("p_infinite" :> Lib) @@ ("n_infinite" :> 0)
    @@ ("min" :> SeriesMin(s)) @@ ("max" :> SeriesMax(s))
    @@ ("5%" :> Lib) @@ ("25%" :> Lib) @@ ("50%" :> Lib) @@ ("75%" :> Lib)
    @@ ("95%" :> Lib)

n_zeros_of(s) == Size(s) - count_nonzero(s)

NumStats(s) ==
    ("mean" :> Lib) @@ ("std" :> Lib) @@ ("variance" :> Lib) @@ ("iqr" :> Lib)
    @@ ("kurtosis" :> Lib) @@ ("skewness" :> Lib) @@ ("sum" :> Lib)
    @@ ("mad" :> Lib) @@ ("cv" :> Lib)
    @@ ("n_zeros" :> n_zeros_of(s)) @@ ("p_zeros" :> <<n_zeros_of(s), Size(s)>>)

\* The keys added after the base fields, for a type str dtype and the types
\* that get no distinct counts
Extras(s, dtype, skipped) ==
    IF dtype \in skipped THEN <<>>
    ELSE ("distinct_count" :> NUnique(s))
         @@ ("is_unique" :> (NUnique(s) = Size(s)))
         @@ ("p_unique" :> <<NUnique(s), Size(s)>>)
         @@ (IF dtype = Tag(TYPE_BOOL) THEN ("mean" :> Lib)
             ELSE IF dtype \in {Tag(TYPE_DATE), Tag(TYPE_NUM)}
             THEN RangeStats(s)
                  @@ (IF dtype = Tag(TYPE_NUM) THEN NumStats(s) ELSE <<>>)
             ELSE <<>>)

\* series[~series.isin(nulls)].count()
CountNotIn(s, nulls) ==
    Cardinality({i \in DOMAIN s.vals :
                    s.vals[i] \notin Elems(nulls) /\ ~IsNull(s.vals[i])})

\* tools.get_description(series, nulls): the profile record, key -> value
get_description(s, nulls) ==
    LET count == CountNotIn(s, nulls)
        dtype == get_type(s)
    IN  ("content_type" :> dtype) @@ ("memory_usage" :> Lib)
        @@ ("count" :> count)
        @@ ("p_null" :> <<Size(s) - count, Size(s)>>)
        @@ ("n_null" :> Size(s) - count)
        @@ Extras(s, dtype, {Tag(TYPE_UNSUPPORTED), Tag(TYPE_CONST),
                             Tag(TYPE_UNIQUE), Tag(TYPE_GEO)})

-----------------------------------------------------------------------------
(* petk/explore.py *)

\* explore.DataReport.get_description(column)
explore_get_description(s) ==
    LET count == Count(s)
        dtype == utils_get_type(s)
    IN  ("type" :> dtype) @@ ("name" :> s.name) @@ ("memory_usage" :> Lib)
        @@ ("count" :> count)
        @@ ("p_missing" :> <<Size(s) - count, Size(s)>>)
        @@ ("n_missing" :> Size(s) - count)
        @@ Extras(s, dtype, {Tag(TYPE_UNSUPPORTED), Tag(TYPE_CONST),
                             Tag(TYPE_UNIQUE)})

-----------------------------------------------------------------------------
(* petk/validation.py *)
(* A checker returns a Series of notes indexed by row, or None.  Both are  *)
(* the function row -> note here; None is the function of no row, which    *)
(* no checker returns as a Series.                                         *)

NoIssues == [i \in {} |-> ""]

IsNone(issues) == DOMAIN issues = {}

range(s, param) ==
    LET dtype == get_type(s)
    IN  IF \E type \in {TYPE_DATE, TYPE_NUM} : IsSubstr(dtype, Tag(type))
        THEN LET lower == param[1]
                 upper == param[2]
                 flagged == {i \in DOMAIN s.vals :
                                is_outbound(s.vals[i], lower, upper) # "None"}
             IN  [i \in flagged |-> is_outbound(s.vals[i], lower, upper)]
        ELSE IF IsSubstr(dtype, Tag(TYPE_STR))
        THEN LET flagged == {i \in DOMAIN s.vals : s.vals[i] \notin Elems(param)}
             IN  [i \in flagged |-> "Value not within the accepted range"]
        ELSE NoIssues

\* A geometry cell carries what the geometry library answers for it: is_valid,
\* whether it lies in the bounding box asked for, and how many of its parts
\* fall under the sliver threshold asked for
Geo(valid, inside, slivers) == <<"geo", valid, inside, slivers>>

geospatial(s) ==
    LET invalids == {i \in DOMAIN s.vals : ~s.vals[i][2]}
    IN  [i \in invalids |-> "explain_validity"]

bounding_box(s, box) ==
    IF box = None THEN [raised |-> "TypeError"]
    ELSE LET outsiders == {i \in DOMAIN s.vals : ~s.vals[i][3]}
         IN  [raised |-> "",
              value |-> [i \in outsiders |-> "Geometry outside of bbox"]]

sliver(s, params) ==
    IF params = None THEN [raised |-> "TypeError"]
    ELSE LET slivers == {i \in DOMAIN s.vals : s.vals[i][4] > 0}
         IN  [raised |-> "",
              value |-> [i \in slivers |-> "slivers found within geometry"]]

\* The callables of the validation module: its functions and the imported
\* explain_validity
Registry == {"bounding_box", "content_type", "explain_validity", "geospatial",
             "range", "sliver"}

\* getattr(validation, v)(series, condition), for the checkers the schemas of
\* this model name
RunChecker(v, s, condition) ==
    CASE v = "range" -> [raised |-> "", value |-> range(s, condition)]
      [] v = "bounding_box" -> bounding_box(s, condition)
      [] v = "sliver" -> sliver(s, condition)

-----------------------------------------------------------------------------
(* petk/exploration.py: DataReport.__init__ and _generate_schema *)
(* A table is a function column -> Series.  A rule group (nulls, default,  *)
(* min, max) is [none |-> TRUE] when the argument is left at None, or      *)
(* [none |-> FALSE, items |-> column -> value]; a value is a cell or a     *)
(* Python list <<"pylist", cells>>.                                        *)

PyList(l) == <<"pylist", l>>
IsList(v) == v[1] = "pylist"

NoGroup == [none |-> TRUE, items |-> <<>>]
Group(f) == [none |-> FALSE, items |-> f]

Raised(e) == [raised |-> e]
Returned(v) == [raised |-> "", value |-> v]

\* _format_requirements(req, to_list).  req.items() of None raises
\* AttributeError; req.pop(k) inside the loop over req.items() makes the
\* iterator raise RuntimeError on its next step (also after the last key).
format_requirements(columns, req, to_list) ==
    IF req.none THEN Raised("AttributeError")
    ELSE IF \E k \in DOMAIN req.items : k \notin columns THEN Raised("RuntimeError")
    ELSE Returned([k \in DOMAIN req.items |->
                      IF to_list /\ ~IsList(req.items[k])
                      THEN PyList(<<req.items[k]>>)
                      ELSE req.items[k]])

\* schema[col][name] = condition, for every col of req
Merge(sch, name, req) ==
    [col \in DOMAIN sch \cup DOMAIN req |->
        IF col \in DOMAIN req
        THEN (name :> req[col]) @@ (IF col \in DOMAIN sch THEN sch[col] ELSE <<>>)
        ELSE sch[col]]

\* The loop of _generate_schema over zip([nulls, default, min, max],
\* SCHEMA_STRUCTURE.items()), from group i on
RECURSIVE SchemaLoop(_, _, _, _)
SchemaLoop(columns, groups, i, sch) ==
    IF i > Len(SCHEMA_STRUCTURE) THEN Returned(sch)
    ELSE LET req == format_requirements(columns, groups[i],
                                        SCHEMA_STRUCTURE[i].to_list)
         IN  IF req.raised # "" THEN req
             ELSE SchemaLoop(columns, groups, i + 1,
                             Merge(sch, SCHEMA_STRUCTURE[i].name, req.value))

generate_schema(columns, a) ==
    LET built == SchemaLoop(columns, <<a.nulls, a.default, a.min, a.max>>, 1, <<>>)
    IN  IF built.raised # "" THEN built
        ELSE IF "geometry" \in columns
        THEN Returned([col \in DOMAIN built.value \cup {"geometry"} |->
                          IF col = "geometry"
                          THEN ("sliver" :> a.sliver)
                               @@ ("bounding_box" :> a.bounding_box)
                          ELSE built.value[col]])
        ELSE built

\* self.nulls: the nulls argument as _format_requirements left it (the dict
\* is normalised in place)
SelfNulls(columns, a) == format_requirements(columns, a.nulls, TRUE).value

\* The override reading of the null list: a column entry replaces the global
\* sentinels
NullListOverride(selfNulls, col) ==
    IF col \in DOMAIN selfNulls THEN selfNulls[col][2] ELSE NULLS

\* constants.NULLS + extra: the values replaced by NaN in column col
NullList(selfNulls, col) ==
    LET extra == IF col \in DOMAIN selfNulls THEN selfNulls[col][2] ELSE <<>>
    IN  NULLS \o extra

\* df[col].replace(nulls, np.nan)
Replace(s, nulls) ==
    [s EXCEPT !.vals = [i \in DOMAIN s.vals |->
                           IF s.vals[i] \in Elems(nulls) THEN NaN ELSE s.vals[i]]]

\* DataReport(data, nulls, default, min, max, sliver, bounding_box)
DataReport(data, a) ==
    LET built == generate_schema(DOMAIN data, a)
    IN  IF built.raised # "" THEN [status |-> "raised", error |-> built.raised]
        ELSE [status |-> "ok",
              schema |-> built.value,
              nulls |-> [col \in DOMAIN data |->
                            NullList(SelfNulls(DOMAIN data, a), col)],
              df |-> [col \in DOMAIN data |->
                         Replace(data[col],
                                 NullList(SelfNulls(DOMAIN data, a), col))],
              description |-> <<>>,
              validation |-> <<>>]

-----------------------------------------------------------------------------
(* petk/exploration.py: _find_columns, describe, validate *)

\* Lexicographic order of the column and rule names that occur
Alphabet == <<"age", "bounding_box", "content_type", "explain_validity",
              "geometry", "geospatial", "ghost", "range", "score", "sliver">>

Rank(name) == CHOOSE i \in DOMAIN Alphabet : Alphabet[i] = name

\* The elements of a set of names as a sorted sequence (np.intersect1d,
\* np.setdiff1d)
RECURSIVE Sorted(_)
Sorted(S) ==
    IF S = {} THEN <<>>
    ELSE LET m == CHOOSE x \in S : \A y \in S : Rank(x) <= Rank(y)
         IN  <<m>> \o Sorted(S \ {m})

\* A difference that stops at the first missing name
Missing1dFirst(req, columns) ==
    IF req \ columns = {} THEN {}
    ELSE {CHOOSE m \in req \ columns : \A x \in req \ columns : Rank(m) <= Rank(x)}

\* np.setdiff1d(columns, self.df.columns)
Missing1d(req, columns) == req \ columns

\* _find_columns(columns): the columns asked for (all of them for an empty
\* request), or the AssertionError naming the missing ones
find_columns(req, columns) ==
    LET asked == IF req = {} THEN columns ELSE req
        missing == Missing1d(asked, columns)
    IN  IF missing # {} THEN [raised |-> "AssertionError", missing |-> Sorted(missing)]
        ELSE [raised |-> "", value |-> asked]

\* A guard that does not consult the cache
NeedsProfileAlways(desc, c) == TRUE

\* Line 80: the column is profiled when it is not in self.description
NeedsProfile(desc, c) == c \notin DOMAIN desc

\* The loop of describe over the columns asked for
DescribeLoop(frame, desc, cols) ==
    [c \in DOMAIN desc \cup cols |->
        IF c \in cols /\ NeedsProfile(desc, c)
        THEN get_description(frame[c], NULLS)
        ELSE desc[c]]

\* A skip that looks at the request only, not at self.validation
SkipsUnasked(val, cols, col) == col \notin cols

\* A describe that profiles the columns it finds before it looks for the
\* missing ones
DescribedBeforeCheck(frame, desc, req) ==
    DescribeLoop(frame, desc,
                 (IF req = {} THEN DOMAIN frame ELSE req) \cap DOMAIN frame)

\* Lines 77-84: self.description after describe(columns); _find_columns
\* raises before the loop
Described(frame, desc, req) ==
    LET fc == find_columns(req, DOMAIN frame)
    IN  IF fc.raised # "" THEN desc ELSE DescribeLoop(frame, desc, fc.value)

\* Lines 93-95: the column is skipped when it was not asked for or already
\* has rows in self.validation
Skips(val, cols, col) ==
    col \notin cols \/ \E i \in DOMAIN val : val[i].column = col

\* np.intersect1d(list(conditions.keys()), <callables of validation>)
Checks(conditions) == Sorted(DOMAIN conditions \cap Registry)

\* The rows pd.concat(audits.values(), keys=audits.keys()) gives for one
\* Series of issues, in index order
RECURSIVE IssueRows(_, _, _, _)
IssueRows(col, fn, issues, i) ==
    IF \A j \in DOMAIN issues : j < i THEN <<>>
    ELSE (IF i \in DOMAIN issues
          THEN <<[function |-> fn, index |-> i, notes |-> issues[i], column |-> col]>>
          ELSE <<>>) \o IssueRows(col, fn, issues, i + 1)

\* The loop `for v in checks` from check k on: the audits so far, or the
\* exception of a checker
RECURSIVE RunChecks(_, _, _, _, _)
RunChecks(s, conditions, checks, k, audits) ==
    IF k > Len(checks) THEN [raised |-> "", value |-> audits]
    ELSE LET r == RunChecker(checks[k], s, conditions[checks[k]])
         IN  IF r.raised # "" THEN r
             ELSE RunChecks(s, conditions, checks, k + 1,
                            IF IsNone(r.value) THEN audits
                            ELSE audits \o IssueRows(s.name, checks[k], r.value, 1))

\* Lines 98-126 for one column: the rows of its audits
Audit(s, conditions) ==
    LET geo == IF s.name = "geometry" /\ ~IsNone(geospatial(s))
               THEN IssueRows(s.name, "geospatial", geospatial(s), 1)
               ELSE <<>>
    IN  RunChecks(s, conditions, Checks(conditions), 1, geo)

\* Whether the audit of a column calls a checker at all: 1 or 0
Invoked(s, conditions) ==
    IF s.name = "geometry" \/ Checks(conditions) # <<>> THEN 1 ELSE 0

\* schema.items(): the columns of the rule groups, then geometry
Items(sch) == Sorted(DOMAIN sch)

\* The loop of validate over schema.items() from item k on: self.validation,
\* the count of completed audits per column, and the exception that ended it
RECURSIVE ValidateLoop(_, _, _, _, _, _)
ValidateLoop(frame, sch, cols, k, val, n) ==
    IF k > Len(Items(sch)) THEN [raised |-> "", validation |-> val, n |-> n]
    ELSE LET col == Items(sch)[k]
         IN  IF Skips(val, cols, col)
             THEN ValidateLoop(frame, sch, cols, k + 1, val, n)
             ELSE LET a == Audit(frame[col], sch[col])
                  IN  IF a.raised # ""
                      THEN [raised |-> a.raised, validation |-> val, n |-> n]
                      ELSE ValidateLoop(frame, sch, cols, k + 1, val \o a.value,
                                        [n EXCEPT ![col] =
                                            @ + Invoked(frame[col], sch[col])])

\* The row-major key: row first, then rule, then column
SortKeyByRow(r) == <<r.index, Rank(r.function), Rank(r.column)>>

\* sort_values(['column', 'index', 'function']): the sort key of a row
SortKey(r) == <<Rank(r.column), r.index, Rank(r.function)>>

\* Lexicographic order on sort keys
KeyLeq(a, b) ==
    \/ a[1] < b[1]
    \/ a[1] = b[1] /\ a[2] < b[2]
    \/ a[1] = b[1] /\ a[2] = b[2] /\ a[3] <= b[3]

RECURSIVE Insert(_, _)
Insert(sorted, r) ==
    IF sorted = <<>> THEN <<r>>
    ELSE IF ~KeyLeq(SortKey(Head(sorted)), SortKey(r)) THEN <<r>> \o sorted
    ELSE <<Head(sorted)>> \o Insert(Tail(sorted), r)

RECURSIVE SortValues(_)
SortValues(rows) ==
    IF rows = <<>> THEN <<>>
    ELSE Insert(SortValues(SubSeq(rows, 1, Len(rows) - 1)), rows[Len(rows)])

\* results[results['column'].isin(columns)]
RECURSIVE Filter(_, _)
Filter(rows, cols) ==
    IF rows = <<>> THEN <<>>
    ELSE (IF Head(rows).column \in cols THEN <<Head(rows)>> ELSE <<>>)
         \o Filter(Tail(rows), cols)

\* Lines 130-140: the issue table validate returns
Results(val, cols) == SortValues(Filter(val, cols))

-----------------------------------------------------------------------------
(* petk/exploration.py: _format_results *)
(* A result frame is the sequence of its rows, [idx, row]: idx is the      *)
(* index label, a str or a tuple of labels, row the function column ->     *)
(* cell.  A nested dict is the function path -> node over the paths of     *)
(* its keys at every depth; a node is a dict or a cell.  verbose is left   *)
(* at False.                                                               *)

PyTuple(t) == <<"tuple", t>>
IsStr(idx) == idx[1] = "str"

Dict == <<"dict">>

IsPrefix(p, q) == Len(p) <= Len(q) /\ SubSeq(q, 1, Len(p)) = p

\* set_index(['column', 'index', 'function']) on the sorted issue rows
SetIndex(rows) ==
    [i \in DOMAIN rows |->
        [idx |-> PyTuple(<<Str(rows[i].column), Num(rows[i].index),
                           Str(rows[i].function)>>),
         row |-> ("notes" :> Str(rows[i].notes))]]

\* Whether `values`, the node at path `at`, takes keys: the root or a dict
Subscriptable(rec, at) == at = <<>> \/ rec[at] = Dict

\* tools.key_exists(values, k) for values the dict at path `at`
key_exists(rec, at, k) == (at \o <<k>>) \in DOMAIN rec

\* values[k] = node: what the key held before goes
SetItem(rec, at, k, node) ==
    LET p == at \o <<k>>
        kept == {q \in DOMAIN rec : ~IsPrefix(p, q)}
    IN  [q \in kept \cup {p} |-> IF q = p THEN node ELSE rec[q]]

\* Lines 166-171: the loop over the labels of a tuple index from label i on;
\* `at` is the path of `values`.  A label equal to the last label does not
\* descend.
RECURSIVE Descend(_, _, _, _)
Descend(rec, at, idx, i) ==
    IF i > Len(idx) THEN [raised |-> "", rec |-> rec, at |-> at]
    ELSE IF ~Subscriptable(rec, at) THEN [raised |-> "TypeError"]
    ELSE LET k == idx[i]
             made == IF key_exists(rec, at, k) THEN rec
                     ELSE SetItem(rec, at, k, Dict)
         IN  Descend(made, IF k # idx[Len(idx)] THEN at \o <<k>> ELSE at,
                     idx, i + 1)

\* row.to_dict() stored under the key: one dict of column -> cell
RECURSIVE SetRow(_, _, _, _)
SetRow(rec, at, row, cols) ==
    IF cols = {} THEN rec
    ELSE LET c == CHOOSE x \in cols : TRUE
         IN  SetRow(SetItem(rec, at, Str(c), row[c]), at, row, cols \ {c})

\* Line 175: values[key] = row.to_dict() if row.size > 1 else row.values[0]
SetValue(rec, at, key, row) ==
    IF Cardinality(DOMAIN row) > 1
    THEN SetRow(SetItem(rec, at, key, Dict), at \o <<key>>, row, DOMAIN row)
    ELSE SetItem(rec, at, key, row[CHOOSE c \in DOMAIN row : TRUE])

\* Lines 161-175 from row n on
RECURSIVE AsDict(_, _, _)
AsDict(rows, n, records) ==
    IF n > Len(rows) THEN Returned(records)
    ELSE LET idx == rows[n].idx
             w == IF IsStr(idx) THEN [raised |-> "", rec |-> records, at |-> <<>>]
                  ELSE Descend(records, <<>>, idx[2], 1)
         IN  IF w.raised # "" THEN Raised(w.raised)
             ELSE IF ~Subscriptable(w.rec, w.at) THEN Raised("TypeError")
             ELSE LET key == IF IsStr(idx) THEN idx ELSE idx[2][Len(idx[2])]
                  IN  AsDict(rows, n + 1, SetValue(w.rec, w.at, key, rows[n].row))

\* results.dropna(how='all', axis=0)
RECURSIVE DropNa(_)
DropNa(rows) ==
    IF rows = <<>> THEN <<>>
    ELSE (IF \A c \in DOMAIN Head(rows).row : Head(rows).row[c] = NaN
          THEN <<>> ELSE <<Head(rows)>>) \o DropNa(Tail(rows))

\* _format_results(results, as_dict)
format_results(rows, as_dict) ==
    IF as_dict THEN AsDict(rows, 1, <<>>) ELSE Returned(DropNa(rows))

-----------------------------------------------------------------------------
(* SpecFn: the module-level functions, applied to every small Series *)

NumVals == {-1, 0, 1, 2}

Cells(dtype) ==
    CASE dtype = "float64" -> {NaN} \cup {Num(n) : n \in NumVals}
      [] dtype = "datetime64" -> {NaN} \cup {Date(n) : n \in {1, 2, 3}}
      [] dtype = "bool" -> {Bool(TRUE), Bool(FALSE)}
      [] dtype = "object" -> {NaN, Str("a"), Str("b"), List}

Dtypes == {"float64", "datetime64", "bool", "object"}

\* The non-empty sequences over S of at most n elements
SeqsUpTo(S, n) == UNION {[1..k -> S] : k \in 1..n}

SeriesSpace ==
    UNION {{[name |-> nm, dtype |-> dt, vals |-> v] :
                nm \in {"age", "geometry"}, v \in SeqsUpTo(Cells(dt), MaxLen)} :
           dt \in Dtypes}

\* The range parameters that fit the Series: (lower, upper) with either bound
\* absent for numbers and dates, a list of accepted values for strings
RangeParams(s) ==
    CASE s.dtype = "datetime64" ->
            {<<l, u>> : l \in {None, Date(1), Date(2)}, u \in {None, Date(2)}}
      [] s.dtype = "object" -> {<<>>, <<Str("a")>>, <<Str("a"), Str("b")>>}
      [] OTHER ->
            {<<l, u>> : l \in {None, Num(-1), Num(0), Num(1)},
                        u \in {None, Num(-1), Num(0), Num(1)}}

\* The nulls handed to tools.get_description: the default, or the default and
\* one more sentinel
NullsParams == {NULLS, NULLS \o <<Num(0)>>, NULLS \o <<Num(-1)>>,
                NULLS \o <<Str("a")>>}

NoCall == [fn |-> "none", arg |-> <<>>, val |-> <<>>]

InitFn ==
    /\ series \in SeriesSpace
    /\ ret = NoCall
    /\ raw = <<>> /\ args = <<>> /\ obj = <<>>
    /\ df = <<>> /\ schema = <<>> /\ description = <<>> /\ validation = <<>>
    /\ nChecked = <<>> /\ nDescribed = <<>> /\ last = <<>>
    /\ results = <<>> /\ shaped = <<>>

\* Each behaviour of SpecFn applies one function to one Series
CallToolsGetType ==
    /\ ret = NoCall
    /\ ret' = [fn |-> "tools.get_type", arg |-> <<>>, val |-> get_type(series)]
    /\ UNCHANGED <<series, initVars, reportVars, fmtVars>>

CallUtilsGetType ==
    /\ ret = NoCall
    /\ ret' = [fn |-> "utils.get_type", arg |-> <<>>, val |-> utils_get_type(series)]
    /\ UNCHANGED <<series, initVars, reportVars, fmtVars>>

CallRange ==
    /\ ret = NoCall
    /\ \E param \in RangeParams(series) :
          ret' = [fn |-> "validation.range", arg |-> param,
                  val |-> range(series, param)]
    /\ UNCHANGED <<series, initVars, reportVars, fmtVars>>

\* isin hashes the cells: a Series with an unhashable cell is not profiled here
CallGetDescription ==
    /\ ret = NoCall
    /\ ~Unhashable(series)
    /\ \E nulls \in NullsParams :
          ret' = [fn |-> "tools.get_description", arg |-> nulls,
                  val |-> get_description(series, nulls)]
    /\ UNCHANGED <<series, initVars, reportVars, fmtVars>>

CallExploreGetDescription ==
    /\ ret = NoCall
    /\ ~Unhashable(series)
    /\ ret' = [fn |-> "explore.get_description", arg |-> <<>>,
               val |-> explore_get_description(series)]
    /\ UNCHANGED <<series, initVars, reportVars, fmtVars>>

NextFn ==
    \/ CallToolsGetType
    \/ CallUtilsGetType
    \/ CallRange
    \/ CallGetDescription
    \/ CallExploreGetDescription

SpecFn == InitFn /\ [][NextFn]_vars

-----------------------------------------------------------------------------
(* Properties of the module-level functions *)

SemanticTypes == {TYPE_EMPTY, TYPE_CONST, TYPE_UNIQUE, TYPE_BOOL, TYPE_DATE,
                  TYPE_NUM, TYPE_STR, TYPE_GEO, TYPE_UNSUPPORTED}

\* The strict priority list of the type classifier for a non-geometry column
PriorityType(s) ==
    LET allNull == \A v \in Elems(s.vals) : IsNull(v)
        distinct == {v \in Elems(s.vals) : ~IsNull(v)}
        valueCount == Cardinality(Elems(s.vals) \ {None, NaN})
                      + (IF \E v \in Elems(s.vals) : IsNull(v) THEN 1 ELSE 0)
    IN  IF allNull THEN TYPE_EMPTY
        ELSE IF Cardinality(distinct) = 1 THEN TYPE_CONST
        ELSE IF s.dtype = "bool" \/
                (s.dtype \in {"float64", "bool"} /\ Cardinality(distinct) = 2)
             THEN TYPE_BOOL
        ELSE IF s.dtype = "datetime64" THEN TYPE_DATE
        ELSE IF s.dtype \in {"float64", "bool"} THEN TYPE_NUM
        ELSE IF valueCount = Size(s) THEN TYPE_UNIQUE
        ELSE TYPE_STR

IsGetType == ret.fn \in {"tools.get_type", "utils.get_type"}

\* The rows a (lower, upper) range rule is to report
OutOfBounds(s, lower, upper) ==
    {i \in DOMAIN s.vals :
        \/ lower # None /\ Less(s.vals[i], lower)
        \/ upper # None /\ Less(upper, s.vals[i])}

\* C3: for a NUMERIC or DATE column and a range (lower, upper) with either
\* bound possibly absent, the range checker reports exactly the rows whose
\* value is below a given lower bound or above a given upper bound, for every
\* bound value, 0 and negative bounds included.
C3_RangeReportsExactlyOutOfBounds ==
    (/\ ret.fn = "validation.range"
     /\ series.name # "geometry"
     /\ PriorityType(series) \in {TYPE_NUM, TYPE_DATE})
    => DOMAIN ret.val = OutOfBounds(series, ret.arg[1], ret.arg[2])

\* C5: for every non-geometry column the classifier returns the first
\* matching case of the priority list EMPTY, CONSTANT, BOOLEAN, DATE, NUMERIC,
\* UNIQUE, STRING.
C5_ClassifierFollowsPriorityList ==
    (IsGetType /\ series.name # "geometry" /\ ~Unhashable(series))
    => ret.val = Tag(PriorityType(series))

\* C6: the classifier returns exactly one tag of the semantic-type enum, never
\* a combination of tags, and a failure during classification gives
\* UNSUPPORTED.
C6_ClassifierReturnsOneTag ==
    IsGetType =>
        /\ \E t \in SemanticTypes : ret.val = Tag(t)
        /\ (Unhashable(series) /\ series.name # "geometry"
               => ret.val = Tag(TYPE_UNSUPPORTED))

\* The cells a profile counts as missing: null, or in the nulls of the call
Missing(v) ==
    \/ IsNull(v)
    \/ ret.fn = "tools.get_description" /\ v \in Elems(ret.arg)

\* C10: for every NUMERIC column, with or without missing values, n_zeros is
\* the number of non-missing zeros, and n_zeros plus the number of non-missing
\* non-zero values is count.
C10_ZerosCountNonMissingZeros ==
    (/\ ret.fn \in {"tools.get_description", "explore.get_description"}
     /\ "n_zeros" \in DOMAIN ret.val)
    => LET present == {i \in DOMAIN series.vals : ~Missing(series.vals[i])}
           zeros == {i \in present : series.vals[i] = Num(0)}
       IN  /\ ret.val["n_zeros"] = Cardinality(zeros)
           /\ ret.val["n_zeros"] + Cardinality(present \ zeros) = ret.val["count"]

IsGetDescription ==
    ret.fn \in {"tools.get_description", "explore.get_description"}

\* The key that holds the type, and the keys written before any statistic is
\* added, in the record of either profiler
TypeField == IF ret.fn = "tools.get_description" THEN "content_type" ELSE "type"

BaseFields ==
    IF ret.fn = "tools.get_description"
    THEN {"content_type", "memory_usage", "count", "p_null", "n_null"}
    ELSE {"type", "name", "memory_usage", "count", "p_missing", "n_missing"}

\* C11: a non-geometry column whose cells are all null classifies as EMPTY,
\* and its profile record has count 0 and only the base fields: no
\* distinct_count, is_unique, p_unique or type-specific statistic.
C11_EmptyColumnHasBaseFieldsOnly ==
    (/\ IsGetDescription
     /\ series.name # "geometry"
     /\ \A v \in Elems(series.vals) : IsNull(v))
    => /\ ret.val[TypeField] = Tag(TYPE_EMPTY)
       /\ ret.val["count"] = 0
       /\ DOMAIN ret.val = BaseFields

-----------------------------------------------------------------------------
(* SpecFmt: _format_results, applied to the frames validate and describe   *)
(* hand to it, in both shaping modes                                       *)

\* The note of each rule
NoteOf(fn) ==
    CASE fn = "range" -> "Value is less than the lower bound"
      [] fn = "geospatial" -> "explain_validity"
      [] fn = "sliver" -> "slivers found within geometry"

\* The rules that can report on each column; `range` is also the name of a
\* column here
RulesOf(col) ==
    IF col = "geometry" THEN {"geospatial", "sliver"} ELSE {"range"}

IssueSpace ==
    {[function |-> fn, index |-> i, notes |-> NoteOf(fn), column |-> col] :
        col \in {"age", "range", "geometry"}, i \in 1..NRows,
        fn \in {"range", "geospatial", "sliver"}}

RECURSIVE SetToSeq(_)
SetToSeq(S) ==
    IF S = {} THEN <<>>
    ELSE LET x == CHOOSE y \in S : TRUE IN <<x>> \o SetToSeq(S \ {x})

\* The frames validate hands over: sorted issue rows under their index
ValidateFrames ==
    {SetIndex(SortValues(SetToSeq(S))) :
        S \in SUBSET {r \in IssueSpace : r.function \in RulesOf(r.column)}}

\* The frames describe hands over, self.description[columns]: a row per
\* statistic of any profiled column, NaN where the column lacks it (count is
\* kept for every column, mean for numbers only)
DescribeFrames ==
    UNION {{<<[idx |-> Str("count"), row |-> count],
              [idx |-> Str("mean"),
               row |-> [c \in cols |-> IF c = "age" THEN Num(1) ELSE NaN]]>> :
                count \in [cols -> {Num(1), Num(2)}]} :
           cols \in {{"age"}, {"name"}, {"age", "name"}}}

Pending == [raised |-> "pending"]

InitFmt ==
    /\ results \in ValidateFrames \cup DescribeFrames
    /\ shaped = [flat |-> Pending, nested |-> Pending]
    /\ series = <<>> /\ ret = <<>>
    /\ raw = <<>> /\ args = <<>> /\ obj = <<>>
    /\ df = <<>> /\ schema = <<>> /\ description = <<>> /\ validation = <<>>
    /\ nChecked = <<>> /\ nDescribed = <<>> /\ last = <<>>

FormatFlat ==
    /\ shaped.flat = Pending
    /\ shaped' = [shaped EXCEPT !.flat = format_results(results, FALSE)]
    /\ UNCHANGED <<results, fnVars, initVars, reportVars>>

FormatNested ==
    /\ shaped.nested = Pending
    /\ shaped' = [shaped EXCEPT !.nested = format_results(results, TRUE)]
    /\ UNCHANGED <<results, fnVars, initVars, reportVars>>

NextFmt ==
    \/ FormatFlat
    \/ FormatNested

SpecFmt == InitFmt /\ [][NextFmt]_vars

\* The path of a row of the flat result: its index labels
PathOf(r) == IF IsStr(r.idx) THEN <<r.idx>> ELSE r.idx[2]

\* The paths of the cells of a row: the row's path, extended by the column
\* when the row has more than one
CellPaths(r) ==
    IF Cardinality(DOMAIN r.row) > 1
    THEN {PathOf(r) \o <<Str(c)>> : c \in DOMAIN r.row}
    ELSE {PathOf(r)}

\* The nested mapping that holds exactly the rows of a flat result
Nest(flat) ==
    LET leaves == UNION {CellPaths(flat[i]) : i \in DOMAIN flat}
        paths == UNION {{SubSeq(p, 1, n) : n \in 1..Len(p)} : p \in leaves}
        ValueAt(p) ==
            LET r == flat[CHOOSE i \in DOMAIN flat : p \in CellPaths(flat[i])]
            IN  IF Cardinality(DOMAIN r.row) > 1 THEN r.row[p[Len(p)][2]]
                ELSE r.row[CHOOSE c \in DOMAIN r.row : TRUE]
    IN  [p \in paths |-> IF p \in leaves THEN ValueAt(p) ELSE Dict]

BothShaped == shaped.flat.raised = "" /\ shaped.nested.raised # "pending"

\* C12: the nested mapping and the flat table of the same result hold the
\* same rows: every row of the flat table is in the mapping at the path of
\* its index labels with the same value, distinct index tuples have distinct
\* paths, and the mapping has no other path; also when an earlier label of
\* an index tuple equals its last label.
C12_NestedAndFlatAreInverses ==
    BothShaped =>
        /\ shaped.nested.raised = ""
        /\ shaped.nested.value = Nest(shaped.flat.value)

-----------------------------------------------------------------------------
(* SpecInit: DataReport(data, nulls, default, min, max, sliver, bounding_box) *)

Column(nm, dt, v) == [name |-> nm, dtype |-> dt, vals |-> v]

RawTables ==
    LET ages == [1..NRows -> {Num(-1), Num(1)}]
        names == [1..NRows -> {Str("a"), Str("N/A"), Str("")}]
        geoms == [i \in 1..NRows |-> Geo(TRUE, TRUE, 0)]
        plain == {("age" :> Column("age", "float64", a))
                  @@ ("name" :> Column("name", "object", n)) :
                      a \in ages, n \in names}
    IN  plain \cup {t @@ ("geometry" :> Column("geometry", "object", geoms)) :
                        t \in plain}

\* (xmin, xmax, ymin, ymax)
Box == <<"box", 0, 1, 0, 1>>

ArgSpace ==
    [nulls : {NoGroup, Group(<<>>),
              Group("age" :> Num(-1)),
              Group("name" :> PyList(<<Str("N/A"), Str("?")>>)),
              Group("ghost" :> Str("x")),
              Group(("age" :> PyList(<<Num(-1)>>)) @@ ("ghost" :> Num(0)))},
     default : {NoGroup, Group(<<>>), Group("age" :> Num(0))},
     min : {Group(<<>>), Group("age" :> Num(0))},
     max : {Group("age" :> Num(1)), Group("ghost" :> Num(1))},
     sliver : {None},
     bounding_box : {None, Box}]

Unbuilt == [status |-> "unbuilt"]

InitInit ==
    /\ raw \in RawTables
    /\ args \in ArgSpace
    /\ obj = Unbuilt
    /\ series = <<>> /\ ret = <<>>
    /\ df = <<>> /\ schema = <<>> /\ description = <<>> /\ validation = <<>>
    /\ nChecked = <<>> /\ nDescribed = <<>> /\ last = <<>>
    /\ results = <<>> /\ shaped = <<>>

Construct ==
    /\ obj = Unbuilt
    /\ obj' = DataReport(raw, args)
    /\ UNCHANGED <<raw, args, fnVars, reportVars, fmtVars>>

NextInit == Construct

SpecInit == InitInit /\ [][NextInit]_vars

\* The rule groups as handed in, by name
GroupOf(name) ==
    CASE name = "nulls" -> args.nulls
      [] name = "default" -> args.default
      [] name = "min" -> args.min
      [] name = "max" -> args.max

GroupNames == {SCHEMA_STRUCTURE[i].name : i \in DOMAIN SCHEMA_STRUCTURE}

\* C8: building the schema never raises because of its rule input: an entry
\* for a column absent from the table is dropped, every other entry is built
\* into the schema, the schema has keys only for columns of the table; also
\* when a rule group is not supplied.
C8_SchemaBuildNeverRaises ==
    obj # Unbuilt =>
        /\ obj.status = "ok"
        /\ DOMAIN obj.schema \subseteq DOMAIN raw
        /\ \A name \in GroupNames :
              ~GroupOf(name).none =>
                 \A col \in DOMAIN GroupOf(name).items \cap (DOMAIN raw \ {"geometry"}) :
                     /\ col \in DOMAIN obj.schema
                     /\ name \in DOMAIN obj.schema[col]

\* The column-specific nulls the caller supplied for col, as a set
UserNulls(col) ==
    IF args.nulls.none \/ col \notin DOMAIN args.nulls.items THEN {}
    ELSE LET v == args.nulls.items[col]
         IN  IF IsList(v) THEN Elems(v[2]) ELSE {v}

GlobalNulls == {None, NaN, Str("null"), Str("")}

-----------------------------------------------------------------------------
(* Spec: one DataReport and the describe and validate calls on it *)

ReportTables ==
    LET ages == {<<Num(1), Num(2), Num(3), Num(3)>>,
                 <<Num(1), Num(1), Num(0), Num(4)>>,
                 <<Num(4), Num(2), Num(2), Num(1)>>}
        scores == {<<Num(1), Num(2), Num(3), Num(3)>>,
                   <<Num(4), Num(2), Num(2), Num(1)>>}
        geoms == {[i \in 1..4 |-> Geo(TRUE, TRUE, 0)],
                  <<Geo(TRUE, TRUE, 0), Geo(FALSE, TRUE, 0), Geo(TRUE, FALSE, 1),
                    Geo(TRUE, TRUE, 0)>>}
        plain == {("age" :> Column("age", "float64", a))
                  @@ ("score" :> Column("score", "float64", c)) :
                      a \in ages, c \in scores}
        dirty == ("age" :> Column("age", "float64",
                                  <<Num(1), Num(1), Num(0), Num(4)>>))
                 @@ ("score" :> Column("score", "float64",
                                       <<Num(4), Num(2), Num(2), Num(1)>>))
    IN  plain \cup {dirty @@ ("geometry" :> Column("geometry", "object", g)) :
                        g \in geoms}

\* {'projected_coordinates': ..., 'threshold': ...}
SliverParams == <<"params", "projected_coordinates", "threshold">>

ReportArgs ==
    [nulls : {Group(<<>>)},
     default : {Group(<<>>)},
     min : {Group("age" :> Num(1))},
     max : {Group("age" :> Num(3))},
     sliver : {None, SliverParams},
     bounding_box : {Box}]

\* The range rule of the scenarios, installed on the columns of `ranged`
\* (schema is a public attribute of the report; _generate_schema itself
\* never writes the key 'range')
WithRange(sch, ranged) ==
    Merge(sch, "range", [c \in ranged |-> <<Num(1), Num(3)>>])

Requests == {{}, {"age"}, {"score"}, {"age", "score"}, {"geometry"},
             {"age", "ghost"}, {"geometry", "ghost"}}

\* Lines 112-113 for the columns audited: column -> checker -> the condition
\* the checker was called with
Invocations(sch, ran) ==
    [c \in ran \cap DOMAIN sch |->
        [v \in Elems(Checks(sch[c])) |-> sch[c][v]]]

Call(op, req, status, missing, result, ran, invoked, calls) ==
    [op |-> op, req |-> req, status |-> status, missing |-> missing,
     result |-> result, ran |-> ran, invoked |-> invoked, calls |-> calls]

Init ==
    /\ \E t \in ReportTables, a \in ReportArgs, ranged \in SUBSET {"age", "score"} :
          LET built == DataReport(t, a)
          IN  /\ built.status = "ok"
              /\ df = built.df
              /\ schema = WithRange(built.schema, ranged)
              /\ description = built.description
              /\ validation = built.validation
              /\ nChecked = [c \in DOMAIN t |-> 0]
              /\ nDescribed = [c \in DOMAIN t |-> 0]
    /\ last = Call("none", {}, "ok", <<>>, <<>>, {}, <<>>, 0)
    /\ series = <<>> /\ ret = <<>>
    /\ raw = <<>> /\ args = <<>> /\ obj = <<>>
    /\ results = <<>> /\ shaped = <<>>

\* describe(columns)
Describe(req) ==
    /\ last.calls < MaxCalls
    /\ LET fc == find_columns(req, DOMAIN df)
       IN  IF fc.raised # ""
           THEN /\ last' = Call("describe", req, "error", fc.missing, <<>>, {},
                                <<>>, last.calls + 1)
                /\ description' = Described(df, description, req)
                /\ UNCHANGED nDescribed
           ELSE LET fresh == {c \in fc.value : NeedsProfile(description, c)}
                IN  /\ description' = Described(df, description, req)
                    /\ nDescribed' = [c \in DOMAIN nDescribed |->
                                         nDescribed[c] + (IF c \in fresh THEN 1 ELSE 0)]
                    /\ last' = Call("describe", req, "ok", <<>>,
                                    [c \in fc.value |-> description'[c]], fresh,
                                    <<>>, last.calls + 1)
    /\ UNCHANGED <<df, schema, validation, nChecked, fnVars, initVars, fmtVars>>

\* validate(columns)
Validate(req) ==
    /\ last.calls < MaxCalls
    /\ LET fc == find_columns(req, DOMAIN df)
       IN  IF fc.raised # ""
           THEN /\ last' = Call("validate", req, "error", fc.missing, <<>>, {},
                                <<>>, last.calls + 1)
                /\ UNCHANGED <<validation, nChecked>>
           ELSE LET r == ValidateLoop(df, schema, fc.value, 1, validation, nChecked)
                    ran == {c \in DOMAIN nChecked : r.n[c] > nChecked[c]}
                IN  /\ validation' = r.validation
                    /\ nChecked' = r.n
                    /\ last' = IF r.raised # ""
                               THEN Call("validate", req, "raised", <<>>, <<>>, ran,
                                         Invocations(schema, ran),
                                         last.calls + 1)
                               ELSE Call("validate", req, "ok", <<>>,
                                         Results(r.validation, fc.value), ran,
                                         Invocations(schema, ran),
                                         last.calls + 1)
    /\ UNCHANGED <<df, schema, description, nDescribed, fnVars, initVars, fmtVars>>

Next ==
    \/ \E req \in Requests : Describe(req)
    \/ \E req \in Requests : Validate(req)

Spec == Init /\ [][Next]_vars

-----------------------------------------------------------------------------
(* Properties of the report *)

\* C1: on one DataReport the checkers of a column run at most once over any
\* sequence of validate calls, whether or not the first run found an issue.
C1_CheckersRunAtMostOnce ==
    \A c \in DOMAIN nChecked : nChecked[c] <= 1

\* No column is profiled twice, and describe returns the stored records
C2_Computed ==
    /\ \A c \in DOMAIN nDescribed :
          /\ nDescribed[c] <= 1
          /\ c \in DOMAIN description <=> nDescribed[c] = 1
    /\ (last.op = "describe" /\ last.status = "ok") =>
          \A c \in DOMAIN last.result :
              /\ c \in DOMAIN description
              /\ last.result[c] = description[c]

\* A stored record stays as it was stored
C2_Stored ==
    \A c \in DOMAIN description :
        /\ c \in DOMAIN description'
        /\ description'[c] = description[c]

\* C2: the statistics of a column are computed at most once: the first
\* describe that asks for the column computes and stores its record, every
\* later describe returns the stored record, which never changes.
C2_ProfileComputedOnce == []C2_Computed /\ [][C2_Stored]_vars

\* C2 witness: a second describe was served a column from the cache
C2_Witness ==
    /\ last.op = "describe" /\ last.status = "ok" /\ last.calls = 2
    /\ \E c \in DOMAIN last.result : c \notin last.ran /\ nDescribed[c] = 1

\* The names a call asked for that the table does not have
Asked == IF last.req = {} THEN DOMAIN df ELSE last.req
Absent == Asked \ DOMAIN df

\* A call fails exactly when it names an absent column, and names them all
C4_Fails ==
    last.op \in {"describe", "validate"} =>
        /\ Absent # {} =>
              /\ last.status = "error"
              /\ Elems(last.missing) = Absent
              /\ last.ran = {}
        /\ Absent = {} => last.status # "error"

\* A failing call profiles and checks nothing
C4_NothingDone ==
    last'.status = "error" /\ last'.calls # last.calls =>
        UNCHANGED <<description, validation, nChecked, nDescribed>>

\* C4: describe or validate with a column list that names columns absent from
\* the table fails before anything is profiled or checked and names every
\* missing column; with every name present no such error is raised.
C4_UnknownColumnsFailFast == []C4_Fails /\ [][C4_NothingDone]_vars

\* C4 witness: a call that named two columns absent from the table failed
\* and named both
C4_Witness ==
    /\ last.status = "error"
    /\ Cardinality(Absent) = 2
    /\ Len(last.missing) = 2

\* Row-major order: row, then rule, then column
RowFirstKey(r) == <<r.index, Rank(r.function), Rank(r.column)>>

\* Column-major order: column, then row, then rule
ColumnFirstKey(r) == <<Rank(r.column), r.index, Rank(r.function)>>

IsIssueTable == last.op = "validate" /\ last.status = "ok"

C13_MinMaxRunAsRange ==
    (last.op = "validate" /\ last.status = "ok" /\ last.calls = 1) =>
        \A c \in Asked \cap DOMAIN schema :
            ("min" \in DOMAIN schema[c] /\ "max" \in DOMAIN schema[c]) =>
                /\ c \in DOMAIN last.invoked
                /\ "range" \in DOMAIN last.invoked[c]
                /\ last.invoked[c]["range"] = <<schema[c]["min"], schema[c]["max"]>>

\* What validate gives for the columns asked on a report with the same
\* table and schema and nothing cached
Fresh ==
    ValidateLoop(df, schema, Asked, 1, <<>>, [c \in DOMAIN nChecked |-> 0])

\* C14: after any sequence of validate calls on one report the issue cache
\* holds each (column, row-id, rule) issue at most once, and validate(C)
\* returns exactly the issues of the columns in C, the same table a fresh
\* report returns for validate(C), whatever was validated before.
C14_ValidateIndependentOfHistory ==
    /\ \A i, j \in DOMAIN validation :
          i # j => ColumnFirstKey(validation[i]) # ColumnFirstKey(validation[j])
    /\ (last.op = "validate" /\ last.status # "error") =>
          /\ last.status = "ok" <=> Fresh.raised = ""
          /\ last.status = "ok" =>
                /\ last.result = Results(Fresh.validation, Asked)
                /\ \A i \in DOMAIN last.result : last.result[i].column \in Asked

\* C14 witness: a second validate returned issues of a column it took from
\* the cache, while the cache also holds issues of a column it did not ask for
C14_Witness ==
    /\ last.op = "validate" /\ last.status = "ok" /\ last.calls = 2
    /\ \E i \in DOMAIN last.result : last.result[i].column \notin last.ran
    /\ \E i \in DOMAIN validation : validation[i].column \notin Asked

\* A call that fails on a missing column leaves the report as it was
C15_Frame ==
    last'.status = "error" /\ last'.calls # last.calls =>
        UNCHANGED <<description, validation, df, schema>>

\* C15: a describe or validate call that fails because a requested column is
\* not in the table changes nothing: the profile cache, the issue cache, the
\* table and the schema are after the call what they were before it, also
\* when other names of the request are columns of the table.
C15_FailedCallChangesNothing == [][C15_Frame]_vars

\* C15 witness: a call that named a column of the table and a missing one
\* failed on a report that had cached something
C15_Witness ==
    /\ last.status = "error"
    /\ last.req \cap DOMAIN df # {}
    /\ (DOMAIN description # {} \/ validation # <<>>)

====
